---- MODULE Spec2Model ----
(***************************************************************************)
(* A model of OnkoDICOM's src/View/ImageLoader.py: ImageLoader.load, the   *)
(* advisory slot ImageLoader.update_calc_dvh that runs on another thread,  *)
(* the interrupt flag the caller owns, and the shared patient store.       *)
(***************************************************************************)
EXTENDS Integers, Sequences, FiniteSets, TLC

\* Number of load() calls a behaviour may make.
MaxLoads == 2

\* Calls made on one CSV2ClinicalDataSROptions.
MaxCsvCalls == 3

VARIABLES
    selected_files,     \* ImageLoader.selected_files
    platform_system,    \* platform.system()
    calc_dvh,           \* ImageLoader.calc_dvh
    advised_calc_dvh,   \* ImageLoader.advised_calc_dvh
    connections,        \* connections of signal_advise_calc_dvh to this instance's slot
    pc,                 \* position of the thread running load()
    interrupt_flag,     \* the threading.Event passed to load()
    result,             \* how the current load() call ended
    loc,                \* the local variables of load()
    store,              \* the PatientDictContainer singleton
    trace,              \* what the current load() call has done, in order
    loads,              \* load() calls started so far
    pending,            \* requests of signal_request_calc_dvh not yet answered
    slotQueue,          \* invocations of update_calc_dvh not yet finished
    slotPc,             \* position of the thread running update_calc_dvh
    delivered,          \* advices update_calc_dvh has stored in this instance
    storeAtCall,        \* the store as it was when the current load() was
                        \* called, kept until load() clears the store
    directory_text,     \* CSV2ClinicalDataSROptions.directory_input.text()
    directory_enabled,  \* CSV2ClinicalDataSROptions.directory_input.isEnabled()
    csv_op,             \* the last call made on the CSV2ClinicalDataSROptions
    csv_calls           \* calls made on the CSV2ClinicalDataSROptions so far

vars == << selected_files, platform_system, calc_dvh, advised_calc_dvh,
           connections, pc, interrupt_flag, result, loc, store, trace, loads,
           pending, slotQueue, slotPc, delivered, storeAtCall,
           directory_text, directory_enabled, csv_op, csv_calls >>

\* The state of the CSV2ClinicalDataSROptions widget.
CsvVars == << directory_text, directory_enabled, csv_op, csv_calls >>

-----------------------------------------------------------------------------
(* Paths are strings: sequences of characters.                             *)

Slash == "/"

\* os.path.commonprefix: the longest string that is a prefix of every path,
\* compared character by character.
IsCommonPrefixLen(paths, n) ==
    \A p \in paths, q \in paths :
        /\ n <= Len(p)
        /\ n <= Len(q)
        /\ \A i \in 1..n : p[i] = q[i]

Commonprefix(paths) ==
    IF paths = {} THEN << >>
    ELSE LET p0 == CHOOSE p \in paths : TRUE
             n  == CHOOSE k \in 0..Len(p0) :
                       /\ IsCommonPrefixLen(paths, k)
                       /\ \A m \in (k+1)..Len(p0) : ~IsCommonPrefixLen(paths, m)
         IN  SubSeq(p0, 1, n)

\* str.rfind('/') + 1
RFindSlash1(p) ==
    IF \E i \in 1..Len(p) : p[i] = Slash
    THEN CHOOSE i \in 1..Len(p) :
             /\ p[i] = Slash
             /\ \A j \in (i+1)..Len(p) : p[j] # Slash
    ELSE 0

RECURSIVE RStripSlash(_)
RStripSlash(p) ==
    IF p # << >> /\ p[Len(p)] = Slash
    THEN RStripSlash(SubSeq(p, 1, Len(p) - 1))
    ELSE p

\* posixpath.dirname
Dirname(p) ==
    LET head == SubSeq(p, 1, RFindSlash1(p))
    IN  IF head # << >> /\ \E i \in 1..Len(head) : head[i] # Slash
        THEN RStripSlash(head)
        ELSE head

\* Mutant of JoinRtss: the file name is appended without a separator.
JoinRtssNoSeparator(path) == path \o << "rtss.dcm" >>

\* Path(path).joinpath('rtss.dcm'); the file name is one token.
JoinRtss(path) ==
    IF path = << >> THEN << "rtss.dcm" >>
    ELSE IF path[Len(path)] = Slash THEN path \o << "rtss.dcm" >>
    ELSE path \o << Slash, "rtss.dcm" >>

-----------------------------------------------------------------------------
(* The selected files.  A file has a path, a DICOM class, for an image its *)
(* slice number, and for a dose whether it carries the scaling attributes. *)

File(path, cls, slice, scaling) ==
    [path |-> path, cls |-> cls, slice |-> slice, scaling |-> scaling]

Ct(path, slice) == File(path, "ct", slice, TRUE)

CtOnly      == { Ct(<<"/","a","/","1">>, "0"), Ct(<<"/","a","/","2">>, "1") }
CtApart     == { Ct(<<"/","a","b","/","1">>, "0"), Ct(<<"/","a","c","/","2">>, "1") }
CtRtss      == { Ct(<<"/","a","/","1">>, "0"),
                 File(<<"/","a","/","s">>, "rtss", "", TRUE) }
CtRtssDose  == { Ct(<<"/","a","/","1">>, "0"),
                 File(<<"/","a","/","s">>, "rtss", "", TRUE),
                 File(<<"/","a","/","d">>, "rtdose", "", TRUE) }
CtRtssBadDose == { Ct(<<"/","a","/","1">>, "0"),
                   File(<<"/","a","/","s">>, "rtss", "", TRUE),
                   File(<<"/","a","/","d">>, "rtdose", "", FALSE) }
CtDose      == { Ct(<<"/","a","/","1">>, "0"),
                 File(<<"/","b","/","d">>, "rtdose", "", TRUE) }
CtOther     == { Ct(<<"/","a","/","1">>, "0"),
                 File(<<"/","a","/","x">>, "other", "", TRUE) }

FileSets == { CtOnly, CtApart, CtRtss, CtRtssDose, CtRtssBadDose, CtDose, CtOther }

Paths(files) == { f.path : f \in files }

AllowedClasses == { "ct", "rtss", "rtdose", "rtplan" }

\* The key of a file in the two dictionaries get_datasets returns.
KeyOf(f) == IF f.cls = "ct" THEN f.slice ELSE f.cls

FileOfKey(files, k) == CHOOSE f \in files : KeyOf(f) = k

\* ImageLoading.get_datasets raises NotAllowedClassError
GetDatasetsFails(files) == \E f \in files : f.cls \notin AllowedClasses

\* ImageLoading.get_datasets, first result: key -> parsed dataset
ReadDataDict(files) ==
    [k \in { KeyOf(f) : f \in files } |-> FileOfKey(files, k)]

\* ImageLoading.get_datasets, second result: key -> file path
FileNamesDict(files) ==
    [k \in { KeyOf(f) : f \in files } |-> FileOfKey(files, k).path]

-----------------------------------------------------------------------------
(* The patient store.                                                      *)

Keys == { "existing_file_rtss", "rois", "raw_contour", "num_points", "pixluts",
          "raw_dvh", "dvh_x_y", "dvh_outdated", "file_rtss", "dataset_rtss",
          "dict_dicom_tree_rtss", "selected_rois" }

DvhKeys == { "raw_dvh", "dvh_x_y", "dvh_outdated" }

\* A stored value: what it is, the load() call that made it, and its content.
Val(tag, load, body) == [tag |-> tag, load |-> load, body |-> body]

Absent == Val("absent", 0, << >>)

NoPath == << "None" >>

EmptyStore ==
    [path |-> NoPath, dataset |-> << >>, filepaths |-> << >>,
     data |-> [k \in Keys |-> Absent]]

\* PatientDictContainer.clear
Clear(s) == EmptyStore

\* PatientDictContainer.set_initial_values
SetInitialValues(s, path, dataset, filepaths, existing, load) ==
    [s EXCEPT !.path = path, !.dataset = dataset, !.filepaths = filepaths,
              !.data["existing_file_rtss"] = Val("path", load, existing)]

\* PatientDictContainer.set
Set(s, key, value) == [s EXCEPT !.data[key] = value]

Has(s, key) == s.data[key].tag # "absent"

-----------------------------------------------------------------------------
(* Dose-volume histograms.  A histogram is the cumulative volume per dose  *)
(* bin of one ROI.                                                         *)

RawDVHs == { << 2, 1 >>, << 2, 0 >>, << 1, 0, 0 >>, << 0, 0 >> }

\* The result of a calc_dvhs call that was cancelled: None.
NoneDvh == << -1 >>

RECURSIVE TrimZeros(_)
TrimZeros(c) ==
    IF Len(c) >= 2 /\ c[Len(c)] = 0 /\ c[Len(c) - 1] = 0
    THEN TrimZeros(SubSeq(c, 1, Len(c) - 1))
    ELSE c

\* ImageLoading.converge_to_0_dvh
converge_to_0_dvh(c) ==
    IF c = << >> THEN c
    ELSE IF c[Len(c)] # 0 THEN Append(c, 0)
    ELSE TrimZeros(c)

-----------------------------------------------------------------------------
(* What a load() call does is recorded in trace, one event per effect.     *)

Ev(kind, name, pct) == [kind |-> kind, name |-> name, pct |-> pct]

\* Mutant of Emit: the pixel-LUT notification repeats the percentage before it.
EmitStale(tr, label, pct) ==
    Append(tr, Ev("progress", label, IF pct = 50 THEN 30 ELSE pct))

\* progress_callback.emit((label, pct))
Emit(tr, label, pct) == Append(tr, Ev("progress", label, pct))

Stage(tr, name) == Append(tr, Ev("stage", name, 0))

Wrote(tr, key) == Append(tr, Ev("set", key, 0))

InitLoc ==
    [path |-> NoPath, read_data_dict |-> << >>, file_names_dict |-> << >>,
     raw_dvh |-> NoneDvh, dvh_x_y |-> NoneDvh]

Running == pc \notin { "idle", "done" }

\* QLineEdit("No file selected")
NoFileSelected == "No file selected"

\* The paths handed to set_csv_input_location; getOpenFileName gives "" when
\* the dialog is cancelled.
CsvPaths == { "", "a.csv", "b.csv" }

NoCall == [kind |-> "none", path |-> "", enable |-> FALSE,
           change_if_modified |-> FALSE]

Init ==
    /\ selected_files \in FileSets
    /\ platform_system \in { "Linux", "Darwin" }
    /\ calc_dvh = FALSE
    /\ advised_calc_dvh = FALSE
    /\ connections = 0
    /\ pc = "idle"
    /\ interrupt_flag = FALSE
    /\ result = "none"
    /\ loc = InitLoc
    /\ store = EmptyStore
    /\ trace = << >>
    /\ loads = 0
    /\ pending = 0
    /\ slotQueue = << >>
    /\ slotPc = "idle"
    /\ delivered = {}
    /\ storeAtCall = EmptyStore
    /\ directory_text = NoFileSelected
    /\ directory_enabled = FALSE
    /\ csv_op = NoCall
    /\ csv_calls = 0

\* ImageLoader.__init__: a new loader replaces the one whose load() has ended.
NewImageLoader ==
    /\ pc = "done"
    /\ loads < MaxLoads
    /\ \E files \in FileSets : selected_files' = files
    /\ calc_dvh' = FALSE
    /\ advised_calc_dvh' = FALSE
    /\ connections' = 0
    /\ slotQueue' = << >>
    /\ slotPc' = "idle"
    /\ delivered' = {}
    /\ pc' = "idle"
    /\ interrupt_flag' = FALSE
    /\ result' = "none"
    /\ loc' = InitLoc
    /\ trace' = << >>
    /\ UNCHANGED << CsvVars, platform_system, store, loads, pending, storeAtCall >>

\* A call of load(), on a new loader or again on the loader used before.
StartLoad ==
    /\ pc \in { "idle", "done" }
    /\ loads < MaxLoads
    /\ pc' = "L36"
    /\ loads' = loads + 1
    /\ interrupt_flag' = FALSE
    /\ result' = "none"
    /\ loc' = InitLoc
    /\ trace' = << >>
    /\ storeAtCall' = store
    /\ UNCHANGED << CsvVars, selected_files, platform_system, calc_dvh, advised_calc_dvh,
                    connections, store, pending, slotQueue, slotPc, delivered >>

\* The caller sets the threading.Event while load() runs.
SetInterrupt ==
    /\ Running
    /\ ~interrupt_flag
    /\ interrupt_flag' = TRUE
    /\ UNCHANGED << CsvVars, selected_files, platform_system, calc_dvh, advised_calc_dvh,
                    connections, pc, result, loc, store, trace, loads, pending,
                    slotQueue, slotPc, delivered, storeAtCall >>

-----------------------------------------------------------------------------
(* The advisory: the parent window answers a request by emitting           *)
(* signal_advise_calc_dvh(advice), which invokes update_calc_dvh once per  *)
(* connection, on the thread of the parent window.                         *)

Advise ==
    /\ pending > 0
    /\ pending' = pending - 1
    /\ \E advice \in BOOLEAN :
           slotQueue' = slotQueue \o [i \in 1..connections |-> advice]
    /\ UNCHANGED << CsvVars, selected_files, platform_system, calc_dvh, advised_calc_dvh,
                    connections, pc, interrupt_flag, result, loc, store, trace,
                    loads, slotPc, delivered, storeAtCall >>

\* Mutant of UpdateCalcDvh158: the slot does not raise advised_calc_dvh.
UpdateCalcDvh158NoFlag ==
    /\ slotPc = "idle"
    /\ slotQueue # << >>
    /\ slotPc' = "L159"
    /\ UNCHANGED << CsvVars, selected_files, platform_system, calc_dvh, connections, pc,
                    interrupt_flag, result, loc, store, trace, loads, pending,
                    slotQueue, delivered, storeAtCall, advised_calc_dvh >>

\* update_calc_dvh, first assignment
UpdateCalcDvh158 ==
    /\ slotPc = "idle"
    /\ slotQueue # << >>
    /\ advised_calc_dvh' = TRUE
    /\ slotPc' = "L159"
    /\ UNCHANGED << CsvVars, selected_files, platform_system, calc_dvh, connections, pc,
                    interrupt_flag, result, loc, store, trace, loads, pending,
                    slotQueue, delivered, storeAtCall >>

\* update_calc_dvh, second assignment
UpdateCalcDvh159 ==
    /\ slotPc = "L159"
    /\ calc_dvh' = Head(slotQueue)
    /\ delivered' = delivered \cup { Head(slotQueue) }
    /\ slotQueue' = Tail(slotQueue)
    /\ slotPc' = "idle"
    /\ UNCHANGED << CsvVars, selected_files, platform_system, advised_calc_dvh,
                    connections, pc, interrupt_flag, result, loc, store, trace,
                    loads, pending, storeAtCall >>

-----------------------------------------------------------------------------
(* load(), step by step.  A step runs from one point at which another      *)
(* thread can be observed (a read of the interrupt flag, of                *)
(* advised_calc_dvh or of calc_dvh) to the next.                           *)

LoaderVars == << selected_files, platform_system, calc_dvh, advised_calc_dvh,
                 loads, slotQueue, slotPc, delivered, storeAtCall, CsvVars >>

\* return <value>
Return(value) ==
    /\ pc' = "done"
    /\ result' = value

\* Mutant of IsSet: the poll never sees the flag.
IsSetNever == FALSE

\* interrupt_flag.is_set()
IsSet == interrupt_flag

\* if interrupt_flag.is_set(): print("stopped"); return False
Poll(next) ==
    IF IsSet
    THEN /\ trace' = Append(trace, Ev("poll", "set", 0))
         /\ Return("False")
    ELSE /\ trace' = Append(trace, Ev("poll", "clear", 0))
         /\ pc' = next
         /\ result' = result

\* Mutant of NeedsAdvice: the advice is asked for whenever there is an RTSS.
NeedsAdviceRtssOnly(fnd) == "rtss" \in DOMAIN fnd

\* 'rtss' in file_names_dict and 'rtdose' in file_names_dict
NeedsAdvice(fnd) == "rtss" \in DOMAIN fnd /\ "rtdose" \in DOMAIN fnd

\* Mutant of WaitOver: load() does not wait for the advice.
WaitOverAtOnce == TRUE

\* the exit condition of: while not self.advised_calc_dvh: pass
WaitOver == advised_calc_dvh

\* Mutant of DoDvh: the advice is ignored.
DoDvhUnadvised(fnd) == "rtdose" \in DOMAIN fnd

\* 'rtdose' in file_names_dict and self.calc_dvh
DoDvh(fnd) == "rtdose" \in DOMAIN fnd /\ calc_dvh

\* if 'rtss' in file_names_dict: ... else: ...
AfterAdvice(fnd) == IF "rtss" \in DOMAIN fnd THEN "L68" ELSE "L132"

\* progress_callback.emit(("Creating datasets...", 0))
L36 ==
    /\ pc = "L36"
    /\ trace' = Emit(trace, "Creating datasets...", 0)
    /\ pc' = "L38"
    /\ UNCHANGED << LoaderVars, connections, interrupt_flag, result, loc, store,
                    pending >>

\* Mutant of StoreAfterFailedRead: the store is cleared before the read.
StoreClearedBeforeRead(s) == Clear(s)

\* The store when get_datasets has raised: load() has not touched it.
StoreAfterFailedRead(s) == s

\* path = dirname(commonprefix(selected_files)); get_datasets(selected_files)
L38 ==
    /\ pc = "L38"
    /\ IF GetDatasetsFails(selected_files)
       THEN /\ trace' = Append(Stage(trace, "get_datasets"),
                               Ev("raise", "NotAllowedClassError", 0))
            /\ Return("NotAllowedClassError")
            /\ loc' = [loc EXCEPT !.path = Dirname(Commonprefix(Paths(selected_files)))]
            /\ store' = StoreAfterFailedRead(store)
       ELSE /\ trace' = Stage(trace, "get_datasets")
            /\ pc' = "L44"
            /\ result' = result
            /\ loc' = [loc EXCEPT
                         !.path = Dirname(Commonprefix(Paths(selected_files))),
                         !.read_data_dict = ReadDataDict(selected_files),
                         !.file_names_dict = FileNamesDict(selected_files)]
            /\ store' = store
    /\ UNCHANGED << LoaderVars, connections, interrupt_flag, pending >>

\* Mutant of Populate: the initial values are set without a clear.
PopulateUncleared(s, path, dataset, filepaths, load) ==
    SetInitialValues(s, path, dataset, filepaths, NoPath, load)

\* patient_dict_container.clear(); patient_dict_container.set_initial_values(...)
Populate(s, path, dataset, filepaths, load) ==
    SetInitialValues(Clear(s), path, dataset, filepaths, NoPath, load)

\* What a clear of the store s removes, as far as the DVH keys go.
Cleared(s) == IF \A k \in DvhKeys : Has(s, k) THEN "dvh" ELSE ""

L44 ==
    /\ pc = "L44"
    /\ store' = Populate(store, loc.path, loc.read_data_dict,
                         loc.file_names_dict, loads)
    /\ trace' = Append(Append(trace, Ev("clear", Cleared(store), 0)),
                       Ev("initial", "", 0))
    /\ storeAtCall' = EmptyStore
    /\ pc' = "L54"
    /\ UNCHANGED << CsvVars, selected_files, platform_system, calc_dvh, advised_calc_dvh,
                    loads, slotQueue, slotPc, delivered, connections,
                    interrupt_flag, result, loc, pending >>

L54 ==
    /\ pc = "L54"
    /\ Poll("L58")
    /\ UNCHANGED << LoaderVars, connections, interrupt_flag, loc, store, pending >>

\* connect(self.update_calc_dvh); self.signal_request_calc_dvh.emit()
L58 ==
    /\ pc = "L58"
    /\ IF NeedsAdvice(loc.file_names_dict)
       THEN /\ connections' = connections + 1
            /\ pending' = pending + 1
            /\ trace' = Append(trace, Ev("request", "", 0))
            /\ pc' = "L62"
       ELSE /\ pc' = AfterAdvice(loc.file_names_dict)
            /\ UNCHANGED << connections, pending, trace >>
    /\ UNCHANGED << LoaderVars, interrupt_flag, result, loc, store >>

\* str(bool)
Str(b) == IF b THEN "True" ELSE "False"

\* The advice of the update_calc_dvh call that has raised advised_calc_dvh:
\* the one the slot is about to store, or else the one stored last.
AdviceSeen == IF slotPc = "L159" THEN Head(slotQueue) ELSE calc_dvh

\* while not self.advised_calc_dvh: pass
L62 ==
    /\ pc = "L62"
    /\ WaitOver
    /\ trace' = Append(trace, Ev("advised", Str(AdviceSeen), 0))
    /\ pc' = AfterAdvice(loc.file_names_dict)
    /\ UNCHANGED << LoaderVars, connections, interrupt_flag, result, loc, store,
                    pending >>

\* Mutant of L68: rois is written as soon as get_roi_info has returned.
L68WritesRois ==
    /\ pc = "L68"
    /\ trace' = Wrote(Stage(Emit(trace, "Getting ROI info...", 10), "get_roi_info"),
                      "rois")
    /\ store' = Set(store, "rois", Val("rois", loads, loc.file_names_dict["rtss"]))
    /\ pc' = "L71"
    /\ UNCHANGED << LoaderVars, connections, interrupt_flag, result, loc, pending >>

\* dcmread(rtss); emit 10; get_roi_info
L68 ==
    /\ pc = "L68"
    /\ trace' = Stage(Emit(trace, "Getting ROI info...", 10), "get_roi_info")
    /\ pc' = "L71"
    /\ UNCHANGED << LoaderVars, connections, interrupt_flag, result, loc, store,
                    pending >>

L71 ==
    /\ pc = "L71"
    /\ Poll("L75")
    /\ UNCHANGED << LoaderVars, connections, interrupt_flag, loc, store, pending >>

\* emit 30; get_raw_contour_data; get_thickness_dict
L75 ==
    /\ pc = "L75"
    /\ trace' = Stage(Stage(Emit(trace, "Getting contour data...", 30),
                            "get_raw_contour_data"), "get_thickness_dict")
    /\ pc' = "L81"
    /\ UNCHANGED << LoaderVars, connections, interrupt_flag, result, loc, store,
                    pending >>

L81 ==
    /\ pc = "L81"
    /\ Poll("L85")
    /\ UNCHANGED << LoaderVars, connections, interrupt_flag, loc, store, pending >>

\* emit 50; get_pixluts
L85 ==
    /\ pc = "L85"
    /\ trace' = Stage(Emit(trace, "Getting pixel LUTs...", 50), "get_pixluts")
    /\ pc' = "L88"
    /\ UNCHANGED << LoaderVars, connections, interrupt_flag, result, loc, store,
                    pending >>

L88 ==
    /\ pc = "L88"
    /\ Poll("L93")
    /\ UNCHANGED << LoaderVars, connections, interrupt_flag, loc, store, pending >>

\* Mutant of L93: the RTSS values are not written before the DVH stage.
L93Deferred ==
    /\ pc = "L93"
    /\ pc' = "L98"
    /\ UNCHANGED << LoaderVars, connections, interrupt_flag, result, loc, pending,
                    store, trace >>

\* Add RTSS values to PatientDictContainer
L93 ==
    /\ pc = "L93"
    /\ LET rtss == loc.file_names_dict["rtss"]
       IN  store' = Set(Set(Set(Set(store,
                         "rois", Val("rois", loads, rtss)),
                         "raw_contour", Val("raw_contour", loads, rtss)),
                         "num_points", Val("num_points", loads, rtss)),
                         "pixluts", Val("pixluts", loads, loc.path))
    /\ trace' = Wrote(Wrote(Wrote(Wrote(trace, "rois"), "raw_contour"),
                            "num_points"), "pixluts")
    /\ pc' = "L98"
    /\ UNCHANGED << LoaderVars, connections, interrupt_flag, result, loc, pending >>

\* if 'rtdose' in file_names_dict and self.calc_dvh: ... else: return True
L98 ==
    /\ pc = "L98"
    /\ LET tr == IF "rtdose" \in DOMAIN loc.file_names_dict
                 THEN Append(trace, Ev("read_calc_dvh", Str(calc_dvh), 0))
                 ELSE trace
       IN  IF DoDvh(loc.file_names_dict)
           THEN /\ pc' = "L105"
                /\ trace' = tr
                /\ result' = result
           ELSE /\ Return("True")
                /\ trace' = Append(tr, Ev("return", "True", 0))
    /\ UNCHANGED << LoaderVars, connections, interrupt_flag, loc, store, pending >>

\* ImageLoading.multi_calc_dvh and ImageLoading.calc_dvhs raise on a dose
\* dataset without the scaling attributes.
DoseMalformed(dataset) == ~dataset["rtdose"].scaling

\* emit 60; multi_calc_dvh on Linux, calc_dvhs elsewhere
L105 ==
    /\ pc = "L105"
    /\ LET label == IF platform_system = "Linux" THEN "Calculating DVHs..."
                    ELSE "Calculating DVHs... (This may take a while)"
           tr    == Stage(Emit(trace, label, 60), "calc_dvh")
       IN  \/ /\ DoseMalformed(loc.read_data_dict)
              /\ trace' = Append(tr, Ev("raise", "MalformedDoseDatasetError", 0))
              /\ Return("MalformedDoseDatasetError")
              /\ loc' = loc
           \/ /\ ~DoseMalformed(loc.read_data_dict)
              /\ platform_system # "Linux"
              /\ interrupt_flag
              /\ trace' = tr
              /\ loc' = [loc EXCEPT !.raw_dvh = NoneDvh]
              /\ pc' = "L112"
              /\ result' = result
           \/ /\ ~DoseMalformed(loc.read_data_dict)
              /\ platform_system = "Linux" \/ ~interrupt_flag
              /\ trace' = tr
              /\ \E raw \in RawDVHs : loc' = [loc EXCEPT !.raw_dvh = raw]
              /\ pc' = "L112"
              /\ result' = result
    /\ UNCHANGED << LoaderVars, connections, interrupt_flag, store, pending >>

\* Mutant of L112: no poll between the DVH calculation and the convergence.
L112Skipped ==
    /\ pc = "L112"
    /\ pc' = "L116"
    /\ UNCHANGED << LoaderVars, connections, interrupt_flag, loc, store, pending,
                    result, trace >>

L112 ==
    /\ pc = "L112"
    /\ Poll("L116")
    /\ UNCHANGED << LoaderVars, connections, interrupt_flag, loc, store, pending >>

\* Mutant of L116: the raw histogram is kept as the converged one.
L116Unconverged ==
    /\ pc = "L116"
    /\ trace' = Stage(Emit(trace, "Converging to zero...", 80), "converge_to_0_dvh")
    /\ loc' = [loc EXCEPT !.dvh_x_y = loc.raw_dvh]
    /\ pc' = "L119"
    /\ UNCHANGED << LoaderVars, connections, interrupt_flag, store, pending, result >>

\* emit 80; converge_to_0_dvh(raw_dvh)
L116 ==
    /\ pc = "L116"
    /\ LET tr == Stage(Emit(trace, "Converging to zero...", 80), "converge_to_0_dvh")
       IN  IF loc.raw_dvh = NoneDvh
           THEN /\ trace' = Append(tr, Ev("raise", "TypeError", 0))
                /\ Return("TypeError")
                /\ loc' = loc
           ELSE /\ trace' = tr
                /\ loc' = [loc EXCEPT !.dvh_x_y = converge_to_0_dvh(loc.raw_dvh)]
                /\ pc' = "L119"
                /\ result' = result
    /\ UNCHANGED << LoaderVars, connections, interrupt_flag, store, pending >>

L119 ==
    /\ pc = "L119"
    /\ Poll("L124")
    /\ UNCHANGED << LoaderVars, connections, interrupt_flag, loc, store, pending >>

\* Add DVH values to PatientDictContainer; return True
L124 ==
    /\ pc = "L124"
    /\ store' = Set(Set(Set(store,
                     "raw_dvh", Val("raw_dvh", loads, loc.raw_dvh)),
                     "dvh_x_y", Val("dvh_x_y", loads, loc.dvh_x_y)),
                     "dvh_outdated", Val("False", loads, << >>))
    /\ trace' = Append(Wrote(Wrote(Wrote(trace, "raw_dvh"), "dvh_x_y"),
                             "dvh_outdated"), Ev("return", "True", 0))
    /\ Return("True")
    /\ UNCHANGED << LoaderVars, connections, interrupt_flag, loc, pending >>

\* The map m with key k set to v.
With(m, k, v) == [x \in DOMAIN m \cup { k } |-> IF x = k THEN v ELSE m[x]]

\* The no-RTSS branch: a structure set is made from the first CT image.
L132 ==
    /\ pc = "L132"
    /\ "0" \in DOMAIN store.dataset
    /\ LET rtss_path == JoinRtss(loc.path)
           rtss      == File(rtss_path, "rtss", "", TRUE)
           s1 == Set(store, "rois", Val("rois", loads, rtss_path))
           s2 == Set(s1, "pixluts", Val("pixluts", loads, loc.path))
           s3 == [s2 EXCEPT !.filepaths = With(s2.filepaths, "rtss", rtss_path),
                            !.dataset = With(s2.dataset, "rtss", rtss)]
           s4 == Set(s3, "file_rtss", Val("path", loads, rtss_path))
           s5 == Set(s4, "dataset_rtss", Val("dataset", loads, rtss_path))
           s6 == Set(s5, "dict_dicom_tree_rtss", Val("tree", loads, rtss_path))
           s7 == Set(s6, "selected_rois", Val("list", loads, << >>))
           t1 == Emit(trace, "Generating temporary rtss...", 10)
           t2 == Stage(Stage(t1, "create_initial_rtss_from_ct"), "get_roi_info")
           t3 == Stage(Wrote(t2, "rois"), "get_pixluts")
           t4 == Wrote(Wrote(Wrote(Wrote(Wrote(t3, "pixluts"), "file_rtss"),
                       "dataset_rtss"), "dict_dicom_tree_rtss"), "selected_rois")
       IN  /\ store' = s7
           /\ trace' = Append(t4, Ev("return", "True", 0))
    /\ Return("True")
    /\ UNCHANGED << LoaderVars, connections, interrupt_flag, loc, pending >>

Load ==
    \/ L36 \/ L38 \/ L44 \/ L54 \/ L58 \/ L62 \/ L68 \/ L71 \/ L75 \/ L81
    \/ L85 \/ L88 \/ L93 \/ L98 \/ L105 \/ L112 \/ L116 \/ L119 \/ L124 \/ L132

Next ==
    \/ NewImageLoader
    \/ StartLoad
    \/ SetInterrupt
    \/ Advise
    \/ UpdateCalcDvh158
    \/ UpdateCalcDvh159
    \/ Load

Spec == Init /\ [][Next]_vars

-----------------------------------------------------------------------------
(* CSV2ClinicalDataSROptions                                               *)

ImageLoaderVars == << selected_files, platform_system, calc_dvh,
                      advised_calc_dvh, connections, pc, interrupt_flag,
                      result, loc, store, trace, loads, pending, slotQueue,
                      slotPc, delivered, storeAtCall >>

\* The body of set_csv_input_location.
set_csv_input_location(path, enable, change_if_modified) ==
    IF ~directory_enabled
    THEN /\ directory_text' = path
         /\ directory_enabled' = enable
    ELSE IF change_if_modified
         THEN /\ directory_text' = path
              /\ directory_enabled' = enable
         ELSE UNCHANGED << directory_text, directory_enabled >>

get_csv_input_location == directory_text

\* A caller sets the location.
SetCsvInputLocation ==
    /\ csv_calls < MaxCsvCalls
    /\ \E path \in CsvPaths, enable \in BOOLEAN, change_if_modified \in BOOLEAN :
           /\ set_csv_input_location(path, enable, change_if_modified)
           /\ csv_op' = [kind |-> "set", path |-> path, enable |-> enable,
                         change_if_modified |-> change_if_modified]
    /\ csv_calls' = csv_calls + 1
    /\ UNCHANGED ImageLoaderVars

\* The Change button: show_file_browser.
ShowFileBrowser ==
    /\ csv_calls < MaxCsvCalls
    /\ \E csv_path \in CsvPaths :
           /\ set_csv_input_location(csv_path, TRUE, TRUE)
           /\ csv_op' = [kind |-> "browse", path |-> csv_path, enable |-> TRUE,
                         change_if_modified |-> TRUE]
    /\ csv_calls' = csv_calls + 1
    /\ UNCHANGED ImageLoaderVars

CsvNext ==
    \/ SetCsvInputLocation
    \/ ShowFileBrowser

SpecCsv == Init /\ [][CsvNext]_vars

\* The thread of load() and the thread of the slot keep running, every stage
\* terminates, and the advisory answers every request.
FairSpec ==
    /\ Init
    /\ [][Next]_vars
    /\ WF_vars(Load)
    /\ WF_vars(UpdateCalcDvh158)
    /\ WF_vars(UpdateCalcDvh159)
    /\ WF_vars(Advise)

-----------------------------------------------------------------------------
(* Readings of the record of the current load() call.                      *)

Indices(kind) == { i \in DOMAIN trace : trace[i].kind = kind }

\* The keys this load() call has written with patient_dict_container.set.
WrittenKeys == { trace[i].name : i \in Indices("set") }

\* The stages this load() call has started.
StagesRun == { trace[i].name : i \in Indices("stage") }

\* The percentages this load() call has notified, in order.
Progress ==
    LET ps == SelectSeq(trace, LAMBDA e : e.kind = "progress")
    IN  [i \in DOMAIN ps |-> ps[i].pct]

IsPrefix(p, q) == Len(p) <= Len(q) /\ \A i \in DOMAIN p : p[i] = q[i]

HasClass(files, cls) == \E f \in files : f.cls = cls

PollPoints == { "L54", "L71", "L81", "L88", "L112", "L119" }

LaterStages == { "get_roi_info", "get_raw_contour_data", "get_thickness_dict",
                 "get_pixluts", "calc_dvh", "converge_to_0_dvh",
                 "create_initial_rtss_from_ct" }

\* The clear of this load() call removed the DVH keys of an earlier load.
ClearedDvhKeys == \E i \in Indices("clear") : trace[i].name = "dvh"

\* The first poll of this load() call found the flag clear.
PassedFirstPoll == \E i \in Indices("poll") : trace[i].name = "clear"

-----------------------------------------------------------------------------
\* C1: when get_datasets raises NotAllowedClassError, load() ends by raising
\* it and the patient store is what it was when load() was called: it has
\* been neither cleared nor given initial values nor written with any key.
C1_FailedReadLeavesStore ==
    result = "NotAllowedClassError" =>
        /\ pc = "done"
        /\ store = storeAtCall
        /\ WrittenKeys = {}
        /\ Indices("clear") = {}
        /\ Indices("initial") = {}

\* A load() that raised NotAllowedClassError over a store an earlier load filled.
C1_Witness ==
    /\ result = "NotAllowedClassError"
    /\ Has(store, "rois")
    /\ trace[Len(trace)].kind = "raise"

\* C2: a step of load() from a poll point at which the flag is set returns
\* False and does nothing else (no exception, no stage, no notification, no
\* store write, no request), and a load() that has returned does nothing more.
C2_CancelIsAValue ==
    [][ /\ (pc \in PollPoints /\ interrupt_flag /\ pc' # pc) =>
              /\ pc' = "done"
              /\ result' = "False"
              /\ store' = store
              /\ pending' = pending
              /\ trace' = Append(trace, Ev("poll", "set", 0))
        /\ (pc = "done" /\ pc' = "done") =>
              /\ result' = result
              /\ store' = store
              /\ trace' = trace
      ]_vars

\* A load() cancelled at its last poll, after the convergence stage.
C2_Witness ==
    /\ pc = "done"
    /\ result = "False"
    /\ "converge_to_0_dvh" \in StagesRun
    /\ trace[Len(trace)] = Ev("poll", "set", 0)

\* C3: between any two stages that load() runs there is a poll of the flag.
C3_PollBetweenStages ==
    \A i \in Indices("stage"), j \in Indices("stage") :
        i < j => \E k \in Indices("poll") : i < k /\ k < j

\* C4: a load() during which the flag was set does not return True.
C4_InterruptedLoadReturnsFalse ==
    (pc = "done" /\ interrupt_flag) => result # "True"

C7_RtssWithoutDose ==
    (/\ pc = "done"
     /\ HasClass(selected_files, "rtss")
     /\ ~HasClass(selected_files, "rtdose")
     /\ ~GetDatasetsFails(selected_files)
     /\ ~interrupt_flag) =>
        /\ result = "True"
        /\ { "rois", "raw_contour", "num_points", "pixluts" } \subseteq WrittenKeys
        /\ \A k \in { "rois", "raw_contour", "num_points", "pixluts" } :
               Has(store, k) /\ store.data[k].load = loads
        /\ \A k \in DvhKeys : ~Has(store, k)
        /\ Indices("request") = {}
        /\ Indices("advised") = {}

\* Such a load() ended, after an earlier load had left the DVH keys in the store.
C7_Witness ==
    /\ pc = "done"
    /\ selected_files = CtRtss
    /\ ~interrupt_flag
    /\ result = "True"
    /\ ClearedDvhKeys

\* A directory d contains the file p.
IsUnder(d, p) ==
    /\ Len(p) > Len(d) + 1
    /\ SubSeq(p, 1, Len(d)) = d
    /\ p[Len(d) + 1] = Slash

\* The deepest directory that contains every one of the paths (the root is << >>).
CommonDirOf(paths) ==
    LET p0 == CHOOSE p \in paths : TRUE
        ds == { SubSeq(p0, 1, n) : n \in 0..Len(p0) }
        ok == { d \in ds : \A p \in paths : IsUnder(d, p) }
    IN  CHOOSE d \in ok : \A e \in ok : Len(e) <= Len(d)

RtssIn(dir) == dir \o << Slash, "rtss.dcm" >>

CtPaths(files) == { f.path : f \in { g \in files : g.cls = "ct" } }

\* What the no-RTSS branch registers and writes, the structure set being at path p.
SynthesizedAt(p) ==
    /\ result = "True"
    /\ "create_initial_rtss_from_ct" \in StagesRun
    /\ store.filepaths["rtss"] = p
    /\ store.dataset["rtss"].cls = "rtss"
    /\ store.dataset["rtss"].path = p
    /\ { "rois", "pixluts", "selected_rois" } \subseteq WrittenKeys
    /\ Has(store, "rois")
    /\ Has(store, "pixluts")
    /\ store.data["selected_rois"] = Val("list", loads, << >>)
    /\ WrittenKeys \cap ({ "raw_contour", "num_points" } \cup DvhKeys) = {}

\* C8 as stated: a load() of a file set with no RTSS (that got past the
\* dataset read and the first poll) puts the structure set at rtss.dcm in the
\* common directory of the CT files.
C8_InCtDirectory ==
    (pc = "done" /\ ~HasClass(selected_files, "rtss") /\ PassedFirstPoll) =>
        SynthesizedAt(RtssIn(CommonDirOf(CtPaths(selected_files))))

\* C8, amended: a load() of a file set with no RTSS whose dataset read
\* succeeded and whose first poll found the flag clear synthesizes a
\* structure set at rtss.dcm in the common root folder of all the selected
\* files, registers that path and dataset under the rtss key of the store's
\* filepaths and dataset maps, writes rois, pixluts and selected_rois = empty,
\* writes none of raw_contour, num_points, raw_dvh, dvh_x_y, dvh_outdated,
\* and returns True.
C8_InCommonRootFolder ==
    (pc = "done" /\ ~HasClass(selected_files, "rtss") /\ PassedFirstPoll) =>
        SynthesizedAt(RtssIn(CommonDirOf(Paths(selected_files))))

\* A load() without RTSS ended whose dose file lies outside the CT directory.
C8_Witness ==
    /\ pc = "done"
    /\ selected_files = CtDose
    /\ result = "True"
    /\ store.filepaths["rtss"] = << Slash, "rtss.dcm" >>

\* The percentage notified before a stage.
StagePct(name, withRtss) ==
    CASE name = "get_datasets" -> 0
      [] name = "create_initial_rtss_from_ct" -> 10
      [] name = "get_roi_info" -> 10
      [] name = "get_raw_contour_data" -> 30
      [] name = "get_thickness_dict" -> 30
      [] name = "get_pixluts" -> IF withRtss THEN 50 ELSE 10
      [] name = "calc_dvh" -> 60
      [] name = "converge_to_0_dvh" -> 80

\* C9: the percentages a load() notifies are strictly increasing and a
\* prefix of 0, 10, 30, 50, 60, 80 (of 0, 10 without an RTSS, and exactly
\* 0, 10 when the no-RTSS branch has run); the notification of a stage is the
\* last one before the stage starts; 100 is never notified.
C9_ProgressSequence ==
    LET withRtss == HasClass(selected_files, "rtss")
    IN  /\ \A i \in DOMAIN Progress, j \in DOMAIN Progress :
               i < j => Progress[i] < Progress[j]
        /\ IsPrefix(Progress, IF withRtss THEN << 0, 10, 30, 50, 60, 80 >>
                              ELSE << 0, 10 >>)
        /\ "create_initial_rtss_from_ct" \in StagesRun => Progress = << 0, 10 >>
        /\ \A j \in Indices("stage") :
               \E i \in Indices("progress") :
                   /\ i < j
                   /\ \A k \in Indices("progress") : k < j => k <= i
                   /\ trace[i].pct = StagePct(trace[j].name, withRtss)
        /\ \A i \in DOMAIN Progress : Progress[i] # 100

\* A load() that has notified all six percentages.
C9_Witness ==
    /\ pc = "done"
    /\ result = "True"
    /\ Progress = << 0, 10, 30, 50, 60, 80 >>

\* C10: a load() whose dataset read succeeded clears the store before its
\* first write, so from then on every key the store holds was written by this
\* load() and the store's maps are the ones of this load(); a load() without
\* RTDOSE leaves raw_dvh, dvh_x_y and dvh_outdated absent whatever the
\* earlier loads wrote.
C10_ClearedAtEachLoad ==
    (/\ Indices("stage") # {}
     /\ pc \notin { "L38", "L44" }
     /\ result # "NotAllowedClassError") =>
        /\ \E c \in Indices("clear") :
               \A w \in Indices("set") \cup Indices("initial") : c < w
        /\ \A k \in Keys : Has(store, k) => store.data[k].load = loads
        /\ \A k \in DOMAIN store.filepaths :
               k # "rtss" => /\ k \in DOMAIN FileNamesDict(selected_files)
                             /\ store.filepaths[k] = FileNamesDict(selected_files)[k]
        /\ ~HasClass(selected_files, "rtdose") => \A k \in DvhKeys : ~Has(store, k)

\* A second load(), without RTDOSE, ended over a store that held the DVH keys.
C10_Witness ==
    /\ pc = "done"
    /\ loads = 2
    /\ result = "True"
    /\ ~HasClass(selected_files, "rtdose")
    /\ ClearedDvhKeys
    /\ \A k \in DvhKeys : ~Has(store, k)

RtssKeys == { "rois", "raw_contour", "num_points", "pixluts" }

DvhFailures == { "MalformedDoseDatasetError", "TypeError" }

\* C11: when the DVH calculation or the convergence raises, the store holds
\* rois, raw_contour, num_points and pixluts written by this load() and none
\* of raw_dvh, dvh_x_y, dvh_outdated has been written or is in the store.
C11_DvhFailureKeepsEarlierKeys ==
    result \in DvhFailures =>
        /\ pc = "done"
        /\ RtssKeys \subseteq WrittenKeys
        /\ \A k \in RtssKeys : Has(store, k) /\ store.data[k].load = loads
        /\ WrittenKeys \cap DvhKeys = {}
        /\ \A k \in DvhKeys : ~Has(store, k)

\* A load() whose DVH calculation raised on a dose without scaling attributes,
\* over a store in which an earlier load had left the DVH keys.
C11_Witness ==
    /\ pc = "done"
    /\ result = "MalformedDoseDatasetError"
    /\ "calc_dvh" \in StagesRun
    /\ ClearedDvhKeys

\* C12: a load() of RTSS and RTDOSE that left the advice wait on the advice
\* True returns True only with all seven keys written, dvh_outdated = False
\* and dvh_x_y the convergence of the raw_dvh that is stored.
C12_AdvisedLoadWritesSevenKeys ==
    (/\ pc = "done"
     /\ result = "True"
     /\ HasClass(selected_files, "rtss")
     /\ HasClass(selected_files, "rtdose")
     /\ \E i \in Indices("advised") : trace[i].name = "True") =>
        /\ RtssKeys \cup DvhKeys \subseteq WrittenKeys
        /\ store.data["dvh_outdated"] = Val("False", loads, << >>)
        /\ store.data["dvh_x_y"].body = converge_to_0_dvh(store.data["raw_dvh"].body)

\* The sequential DVH calculation of this load() was cancelled and gave None.
DvhAborted ==
    /\ "calc_dvh" \in StagesRun
    /\ result # "MalformedDoseDatasetError"
    /\ loc.raw_dvh = NoneDvh

\* C13: when calc_dvhs was cancelled and gave no result, load() goes to the
\* poll after it and returns False: it raises nothing, converge_to_0_dvh is
\* not invoked on the absent result and no DVH key is written; and a load()
\* that returned False has written none of raw_dvh, dvh_x_y, dvh_outdated.
C13_AbortedDvhReturnsFalse ==
    /\ DvhAborted =>
          /\ pc \in { "L112", "done" }
          /\ pc = "done" => result = "False"
          /\ "converge_to_0_dvh" \notin StagesRun
          /\ WrittenKeys \cap DvhKeys = {}
    /\ result # "TypeError"
    /\ result = "False" =>
          /\ WrittenKeys \cap DvhKeys = {}
          /\ \A k \in DvhKeys : ~Has(store, k)

\* A load() that returned False after calc_dvhs had been cancelled.
C13_Witness ==
    /\ DvhAborted
    /\ pc = "done"
    /\ result = "False"
    /\ platform_system # "Linux"

\* A curve that ends with a zero-volume bin and that the normalizer leaves as it is.
Converged(c) ==
    /\ c # << >>
    /\ c[Len(c)] = 0
    /\ converge_to_0_dvh(c) = c

\* C14: the curve that load() gets from converge_to_0_dvh(raw_dvh), and the
\* dvh_x_y it stores, ends with a zero-volume bin and is a fixed point of
\* converge_to_0_dvh, whichever raw histogram the calculation returned.
C14_ConvergedEndsWithZero ==
    /\ "converge_to_0_dvh" \in StagesRun => Converged(loc.dvh_x_y)
    /\ Has(store, "dvh_x_y") => Converged(store.data["dvh_x_y"].body)

\* A load() that stored the convergence of a histogram with a run of zero bins.
C14_Witness ==
    /\ pc = "done"
    /\ Has(store, "dvh_x_y")
    /\ store.data["raw_dvh"].body = << 1, 0, 0 >>
    /\ store.data["dvh_x_y"].body = << 1, 0 >>

\* C15: the calc_dvh that load() reads at its DVH decision is the advice that
\* update_calc_dvh was delivering when load() left the wait loop.
C15_ReadsDeliveredAdvice ==
    \A i \in Indices("read_calc_dvh"), j \in Indices("advised") :
        trace[i].name = trace[j].name

\* C16: when every stage terminates and every advisory request is answered,
\* every call of load() ends, and with the flag never set it ends by
\* returning True or raising; the advisory's answer is needed: no step takes
\* load() out of the wait loop while advised_calc_dvh is not raised.
C16_LoadTerminates ==
    /\ Running ~> (pc = "done")
    /\ []((pc = "done" /\ ~interrupt_flag) =>
              result \in { "True", "NotAllowedClassError" } \cup DvhFailures)
    /\ [][(pc = "L62" /\ ~advised_calc_dvh) => pc' = "L62"]_vars

\* A load() that waited for the advice and then returned True, the flag never set.
C16_Witness ==
    /\ pc = "done"
    /\ result = "True"
    /\ ~interrupt_flag
    /\ Indices("advised") # {}
    /\ pending = 0

\* The store right after the clear and set_initial_values of this load().
InitialValuesOnly ==
    [path |-> Dirname(Commonprefix(Paths(selected_files))),
     dataset |-> ReadDataDict(selected_files),
     filepaths |-> FileNamesDict(selected_files),
     data |-> [k \in Keys |-> IF k = "existing_file_rtss"
                              THEN Val("path", loads, NoPath) ELSE Absent]]

RtssStages == { "get_roi_info", "get_raw_contour_data", "get_thickness_dict",
                "get_pixluts" }

\* C17: with an RTSS, load() has written either none or all four of rois,
\* raw_contour, num_points and pixluts, and it writes them only after the ROI,
\* contour, thickness and pixel-LUT stages and the four polls, all found
\* clear; a load() cancelled at one of its first four polls leaves the store
\* with the initial values only.
C17_RtssKeysCommittedTogether ==
    /\ HasClass(selected_files, "rtss") =>
          /\ WrittenKeys \cap RtssKeys = {} \/ RtssKeys \subseteq WrittenKeys
          /\ \A w \in Indices("set") :
                /\ \A s \in RtssStages :
                      \E i \in Indices("stage") : trace[i].name = s /\ i < w
                /\ Cardinality({ p \in Indices("poll") :
                                    p < w /\ trace[p].name = "clear" }) >= 4
    /\ (result = "False" /\ "calc_dvh" \notin StagesRun) =>
          /\ WrittenKeys = {}
          /\ store = InitialValuesOnly

\* A load() cancelled at its fourth poll, after the pixel-LUT stage.
C17_Witness ==
    /\ pc = "done"
    /\ result = "False"
    /\ "get_pixluts" \in StagesRun
    /\ "calc_dvh" \notin StagesRun
    /\ store = InitialValuesOnly

\* C18: every load() call with RTSS and RTDOSE, a later call on the same
\* ImageLoader included, leaves the advisory wait only once the request it
\* emitted has been answered.
C18_WaitsForOwnAdvice ==
    [][(pc = "L62" /\ pc' # "L62") => pending = 0]_vars

\* The call just made on the CSV2ClinicalDataSROptions.
Called(kind) == csv_calls' = csv_calls + 1 /\ csv_op'.kind = kind

\* C19: a set_csv_input_location call with change_if_modified = False leaves
\* the text and the enabled state alone once an earlier call or a file-browser
\* selection has set the location; a call with change_if_modified = True and a
\* file-browser selection replace the location; get_csv_input_location
\* returns the location last stored.
C19_UnmodifiedCallKeepsLocation ==
    /\ [][(Called("set") /\ ~csv_op'.change_if_modified /\ csv_calls > 0) =>
             UNCHANGED << directory_text, directory_enabled >>]_vars
    /\ [][(Called("set") /\ ~csv_op'.change_if_modified /\ csv_calls = 0) =>
             get_csv_input_location' = csv_op'.path]_vars
    /\ [][((Called("set") /\ csv_op'.change_if_modified) \/ Called("browse")) =>
             get_csv_input_location' = csv_op'.path]_vars

====
